---- MODULE Spec2Model ----
(***************************************************************************)
(* A model of src/app.py: the laptop scraper (scrape_laptops, memoised by  *)
(* st.cache_data) and the dashboard pass (main) that filters, ranks and    *)
(* exports the scraped table.                                              *)
(*                                                                         *)
(* Texts are sequences of one-character strings, so that strip, replace,   *)
(* split, float() and int() are computed on the characters as Python       *)
(* computes them.  Floats are exact rationals n/d in lowest terms, or one  *)
(* of the IEEE specials inf, -inf and nan.                                 *)
(***************************************************************************)
EXTENDS Integers, Sequences, FiniteSets, TLC

VARIABLES
    site,       \* what the web site answers to a GET
    now,        \* the clock, in seconds
    cache,      \* st.cache_data's store for scrape_laptops, per URL
    session,    \* st.session_state: the keys 'df' and 'scrape_time'
    out,        \* what the last run of main() put on the screen
    inp,        \* the argument of the function under test (function specs)
    res         \* its result

vars == <<site, now, cache, session, out, inp, res>>

----------------------------------------------------------------------------
(* Optional values: None is <<>>, Some(x) is <<x>>.                        *)

None == <<>>

Some(x) == <<x>>

IsSome(o) == o # <<>>

Get(o) == o[1]

----------------------------------------------------------------------------
(* Floats.                                                                 *)

Abs(x) == IF x < 0 THEN -x ELSE x

RECURSIVE Gcd(_, _)
Gcd(a, b) == IF b = 0 THEN a ELSE Gcd(b, a % b)

\* The rational n/d (d # 0) in lowest terms with a positive denominator.
Num(n, d) ==
    LET g == Gcd(Abs(n), Abs(d))
        s == IF d < 0 THEN -1 ELSE 1
    IN  [k |-> "num", n |-> (s * n) \div g, d |-> (s * d) \div g]

NaN == [k |-> "nan", n |-> 0, d |-> 1]

PosInf == [k |-> "inf", n |-> 1, d |-> 1]

NegInf == [k |-> "inf", n |-> -1, d |-> 1]

IsNaN(x) == x.k = "nan"

IsFinite(x) == x.k = "num"

\* IEEE comparison: every comparison with nan is false.
FLe(x, y) ==
    /\ ~IsNaN(x)
    /\ ~IsNaN(y)
    /\ CASE x.k = "inf" /\ x.n < 0 -> TRUE
         [] y.k = "inf" /\ y.n > 0 -> TRUE
         [] x.k = "inf" \/ y.k = "inf" -> FALSE
         [] OTHER -> x.n * y.d <= y.n * x.d

FLt(x, y) == FLe(x, y) /\ x # y

\* x / y on floats, as numpy divides: n/0 is inf with n's sign, 0/0 is nan.
FDiv(x, y) ==
    CASE IsNaN(x) \/ IsNaN(y) -> NaN
      [] x.k = "inf" /\ y.k = "inf" -> NaN
      [] x.k = "inf" -> IF y.n < 0 THEN (IF x.n > 0 THEN NegInf ELSE PosInf) ELSE x
      [] y.k = "inf" -> Num(0, 1)
      [] y.n = 0 -> IF x.n = 0 THEN NaN ELSE IF x.n > 0 THEN PosInf ELSE NegInf
      [] OTHER -> Num(x.n * y.d, x.d * y.n)

----------------------------------------------------------------------------
(* Texts and the conversions the scraper applies to them.                  *)

IsSpace(c) == c \in {" ", "\t", "\n"}

IsDigit(c) == c \in {"0", "1", "2", "3", "4", "5", "6", "7", "8", "9"}

DigitVal(c) ==
    CASE c = "0" -> 0 [] c = "1" -> 1 [] c = "2" -> 2 [] c = "3" -> 3
      [] c = "4" -> 4 [] c = "5" -> 5 [] c = "6" -> 6 [] c = "7" -> 7
      [] c = "8" -> 8 [] c = "9" -> 9

RECURSIVE LStrip(_)
LStrip(s) == IF s # <<>> /\ IsSpace(Head(s)) THEN LStrip(Tail(s)) ELSE s

RECURSIVE RStrip(_)
RStrip(s) ==
    IF s # <<>> /\ IsSpace(s[Len(s)]) THEN RStrip(SubSeq(s, 1, Len(s) - 1)) ELSE s

\* str.strip()
Strip(s) == RStrip(LStrip(s))

\* str.replace(ch, '') for a one-character ch
Remove(s, ch) == SelectSeq(s, LAMBDA c : c # ch)

\* The first whitespace-separated word of a text that starts with a
\* non-space character: s.split()[0].
RECURSIVE FirstWord(_)
FirstWord(s) ==
    IF s = <<>> \/ IsSpace(Head(s)) THEN <<>> ELSE <<Head(s)>> \o FirstWord(Tail(s))

AllDigits(s) == \A i \in 1..Len(s) : IsDigit(s[i])

RECURSIVE DigitsVal(_)
DigitsVal(s) ==
    IF s = <<>> THEN 0 ELSE 10 * DigitsVal(SubSeq(s, 1, Len(s) - 1)) + DigitVal(s[Len(s)])

RECURSIVE Pow10(_)
Pow10(e) == IF e = 0 THEN 1 ELSE 10 * Pow10(e - 1)

LowerChar(c) ==
    CASE c = "N" -> "n" [] c = "A" -> "a" [] c = "I" -> "i"
      [] c = "F" -> "f" [] c = "T" -> "t" [] c = "Y" -> "y"
      [] OTHER -> c

Lower(s) == [i \in 1..Len(s) |-> LowerChar(s[i])]

HasSign(s) == s # <<>> /\ Head(s) \in {"+", "-"}

SignOf(s) == IF s # <<>> /\ Head(s) = "-" THEN -1 ELSE 1

Unsigned(s) == IF HasSign(s) THEN Tail(s) ELSE s

\* The position of the first "." of s, or 0.
DotAt(s) ==
    IF \E i \in 1..Len(s) : s[i] = "."
    THEN CHOOSE i \in 1..Len(s) : s[i] = "." /\ \A j \in 1..(i - 1) : s[j] # "."
    ELSE 0

\* int(s): Some(value), or None where Python raises ValueError.  Surrounding
\* whitespace and one sign are accepted; the digits are decimal.
ParseInt(s) ==
    LET t == Strip(s)
        u == Unsigned(t)
    IN  IF u # <<>> /\ AllDigits(u) THEN Some(SignOf(t) * DigitsVal(u)) ELSE None

\* float(s): Some(value), or None where Python raises ValueError.  Accepted
\* are, after stripping whitespace and one sign: nan, inf and infinity in
\* any letter case, and decimals with at least one digit and at most one
\* point.  (Exponents and digit-group underscores are not in the texts of
\* this model.)
ParseFloat(s) ==
    LET t == Strip(s)
        u == Unsigned(t)
        l == Lower(u)
        p == DotAt(u)
        ip == IF p = 0 THEN u ELSE SubSeq(u, 1, p - 1)
        fp == IF p = 0 THEN <<>> ELSE SubSeq(u, p + 1, Len(u))
    IN  CASE l = <<"n", "a", "n">> -> Some(NaN)
          [] l \in {<<"i", "n", "f">>, <<"i", "n", "f", "i", "n", "i", "t", "y">>} ->
                Some(IF SignOf(t) < 0 THEN NegInf ELSE PosInf)
          [] AllDigits(ip) /\ AllDigits(fp) /\ Len(ip) + Len(fp) > 0 ->
                Some(Num(SignOf(t) * (DigitsVal(ip) * Pow10(Len(fp)) + DigitsVal(fp)),
                         Pow10(Len(fp))))
          [] OTHER -> None

----------------------------------------------------------------------------
(* Floats, continued: the arithmetic of the aggregations.                  *)

FromInt(i) == Num(i, 1)

FAdd(x, y) ==
    CASE IsNaN(x) \/ IsNaN(y) -> NaN
      [] x.k = "inf" /\ y.k = "inf" -> IF x.n = y.n THEN x ELSE NaN
      [] x.k = "inf" -> x
      [] y.k = "inf" -> y
      [] OTHER -> Num(x.n * y.d + y.n * x.d, x.d * y.d)

RECURSIVE FSum(_)
FSum(xs) == IF xs = <<>> THEN FromInt(0) ELSE FAdd(Head(xs), FSum(Tail(xs)))

RECURSIVE ISum(_)
ISum(xs) == IF xs = <<>> THEN 0 ELSE Head(xs) + ISum(Tail(xs))

\* Series.mean(): nan values are skipped; the mean of nothing is nan.
FMean(xs) ==
    LET ys == SelectSeq(xs, LAMBDA x : ~IsNaN(x))
    IN  IF ys = <<>> THEN NaN ELSE FDiv(FSum(ys), FromInt(Len(ys)))

\* Series.min() and Series.max(): nan values are skipped; nan if none is left.
FMin(xs) ==
    LET S == {xs[i] : i \in {j \in 1..Len(xs) : ~IsNaN(xs[j])}}
    IN  IF S = {} THEN NaN ELSE CHOOSE m \in S : \A x \in S : FLe(m, x)

FMax(xs) ==
    LET S == {xs[i] : i \in {j \in 1..Len(xs) : ~IsNaN(xs[j])}}
    IN  IF S = {} THEN NaN ELSE CHOOSE m \in S : \A x \in S : FLe(x, m)

----------------------------------------------------------------------------
(* Data frames: the column labels and the rows, each row a record whose    *)
(* fields are the columns.                                                 *)

RecordColumns == <<"Name", "Price", "Description", "Rating", "Reviews">>

\* pd.DataFrame(): no columns, no rows.
EmptyFrame == [columns |-> <<>>, rows |-> <<>>]

\* pd.DataFrame(laptops) for a list of dicts that all have the same keys.
FrameOf(laptops) ==
    IF laptops = <<>> THEN EmptyFrame ELSE [columns |-> RecordColumns, rows |-> laptops]

\* DataFrame.empty: an axis of length 0.
IsEmpty(df) == df.columns = <<>> \/ df.rows = <<>>

Column(df, c) == [i \in 1..Len(df.rows) |-> df.rows[i][c]]

SeqToSet(s) == {s[i] : i \in 1..Len(s)}

----------------------------------------------------------------------------
(* Product cards.  A card holds the five sub-elements the scraper looks    *)
(* for, each absent (None) or present with its text; the name link holds   *)
(* its title attribute, itself absent or present.                          *)

Card(name_tag, price_tag, desc_tag, rating_tag, reviews_tag) ==
    [name_tag |-> name_tag, price_tag |-> price_tag, desc_tag |-> desc_tag,
     rating_tag |-> rating_tag, reviews_tag |-> reviews_tag]

NA == <<"N", "/", "A">>

\* (a) of the scenario: complete, "$199.99", rating 4, "12 reviews".
CardA ==
    Card(Some(Some(<<"A">>)), Some(<<"$", "1", "9", "9", ".", "9", "9">>),
         Some(<<" ", "d", "a", " ">>), Some(<<"4">>),
         Some(<<"1", "2", " ", "r", "e", "v", "i", "e", "w", "s">>))

\* (b): no description element; a price with a thousands separator.
CardB ==
    Card(Some(Some(<<"B">>)), Some(<<" ", "$", "1", ",", "2", "9", "9", ".", "0", "0", "\n">>),
         None, Some(<<"5">>), Some(<<"3", " ", "r", "e", "v", "i", "e", "w", "s">>))

\* (c): the price text is "N/A".
CardC ==
    Card(Some(Some(<<"C">>)), Some(NA), Some(<<"d", "c">>), Some(<<"3">>),
         Some(<<"7", " ", "r", "e", "v", "i", "e", "w", "s">>))

\* No price element.
CardNoPrice ==
    Card(Some(Some(<<"F">>)), None, Some(<<"d", "f">>), Some(<<"4">>),
         Some(<<"2", " ", "r", "e", "v", "i", "e", "w", "s">>))

\* None of the five sub-elements.
CardBare == Card(None, None, None, None, None)

\* A name link without a title attribute, a price of "$0", an empty
\* review-count element.
CardNoTitle ==
    Card(Some(None), Some(<<"$", "0">>), Some(<<"d", "t">>), Some(<<"5">>), Some(<<" ">>))

\* A data-rating attribute that is not an integer.
CardBadRating ==
    Card(Some(Some(<<"R">>)), Some(<<"$", "5", "0">>), Some(<<"d", "r">>),
         Some(<<"4", ".", "5">>), None)

\* A review count that does not start with a numeral.
CardBadReviews ==
    Card(None, Some(<<"$", "5", "0">>), None, None,
         Some(<<"n", "o", " ", "r", "e", "v", "i", "e", "w", "s">>))

\* The price text is "$NaN", the description element is missing.
CardNaN ==
    Card(Some(Some(<<"N">>)), Some(<<"$", "N", "a", "N">>), None, Some(<<"4">>),
         Some(<<"1", " ", "r", "e", "v", "i", "e", "w">>))

\* The same price as CardA, a lower rating.
CardD ==
    Card(Some(Some(<<"D">>)), Some(<<"$", "1", "9", "9", ".", "9", "9">>),
         Some(<<"d", "d">>), Some(<<"3">>), None)

Cards ==
    {CardA, CardB, CardC, CardNoPrice, CardBare, CardNoTitle, CardBadRating,
     CardBadReviews, CardNaN, CardD}

----------------------------------------------------------------------------
(* scrape_laptops: the body of the per-card try block.                     *)

Record(name, price, description, rating, review_count) ==
    [Name |-> name, Price |-> price, Description |-> description,
     Rating |-> rating, Reviews |-> review_count]

\* name_tag.get('title', '') if name_tag else 'N/A'
ExtractName(product) ==
    IF IsSome(product.name_tag)
    THEN (IF IsSome(Get(product.name_tag)) THEN Get(Get(product.name_tag)) ELSE <<>>)
    ELSE NA

\* price_tag.text.strip() if price_tag else '$0'
PriceText(product) ==
    IF IsSome(product.price_tag) THEN Strip(Get(product.price_tag)) ELSE <<"$", "0">>

\* float(price_text.replace('$', '').replace(',', '')): None where it raises.
ExtractPrice(product) == ParseFloat(Remove(Remove(PriceText(product), "$"), ","))

\* desc_tag.text.strip() if desc_tag else 'N/A'
ExtractDescription(product) ==
    IF IsSome(product.desc_tag) THEN Strip(Get(product.desc_tag)) ELSE NA

\* int(rating_tag['data-rating']) if rating_tag else 0: None where it raises.
ExtractRating(product) ==
    IF IsSome(product.rating_tag) THEN ParseInt(Get(product.rating_tag)) ELSE Some(0)

\* reviews_tag.text.strip() if reviews_tag else '0 reviews'
ReviewsText(product) ==
    IF IsSome(product.reviews_tag)
    THEN Strip(Get(product.reviews_tag))
    ELSE <<"0", " ", "r", "e", "v", "i", "e", "w", "s">>

\* int(reviews.split()[0]) if reviews else 0: None where it raises.
ExtractReviews(product) ==
    LET reviews == ReviewsText(product)
    IN  IF reviews # <<>> THEN ParseInt(FirstWord(reviews)) ELSE Some(0)

\* One pass of the loop body: Some(record) when the card's dict is appended,
\* None when a statement raised and the except clause skipped the card.
ExtractCard(product) ==
    LET price == ExtractPrice(product)
        rating == ExtractRating(product)
        review_count == ExtractReviews(product)
    IN  IF price = None THEN None
        ELSE IF rating = None THEN None
        ELSE IF review_count = None THEN None
        ELSE Some(Record(ExtractName(product), Get(price), ExtractDescription(product),
                         Get(rating), Get(review_count)))

\* A faulty loop: the try statement around the whole loop instead of inside
\* it, so that the first raising card ends the extraction.
RECURSIVE ScrapeLoopBreak(_, _)
ScrapeLoopBreak(products, laptops) ==
    IF products = <<>> THEN laptops
    ELSE LET extracted == ExtractCard(Head(products))
         IN  IF IsSome(extracted)
             THEN ScrapeLoopBreak(Tail(products), Append(laptops, Get(extracted)))
             ELSE laptops

\* for product in products: the list laptops after the loop.
RECURSIVE ScrapeLoop(_, _)
ScrapeLoop(products, laptops) ==
    IF products = <<>> THEN laptops
    ELSE LET extracted == ExtractCard(Head(products))
         IN  ScrapeLoop(Tail(products),
                        IF IsSome(extracted) THEN Append(laptops, Get(extracted))
                        ELSE laptops)

----------------------------------------------------------------------------
(* scrape_laptops: the outer try block and its except clause.              *)

\* What the site does with a GET: requests.get raises exc, or returns a
\* response with a status and, as its body, a page of cards.
Raise(exc) == [kind |-> "raise", exc |-> exc, status |-> 0, body |-> <<>>]

Response(status, body) == [kind |-> "response", exc |-> "", status |-> status, body |-> body]

\* A faulty status test: only server errors (5xx) raise.
RaisesForServerError(status) == 500 <= status /\ status < 600

\* Response.raise_for_status() raises HTTPError for a 4xx or 5xx status.
RaisesForStatus(status) == 400 <= status /\ status < 600

\* soup.find_all('div', class_='card-body'): the cards of the body.
FindAll(body) == body

\* Lines 41-87: exc is the exception that left the try block, if one did;
\* value is what the block returned otherwise.
TryBlock(response) ==
    IF response.kind = "raise" THEN [exc |-> Some(response.exc), value |-> None]
    ELSE IF RaisesForStatus(response.status) THEN [exc |-> Some("HTTPError"), value |-> None]
    ELSE [exc |-> None, value |-> Some(FrameOf(ScrapeLoop(FindAll(response.body), <<>>)))]

\* The classes an `except Exception` clause catches, among those modelled.
IsException(exc) == exc \in {"ConnectionError", "Timeout", "HTTPError"}

\* One call of the undecorated function on the site's answer: the exception
\* it raised to its caller (raised), the frame it returned (value) and the
\* st.error reports it made (errors).
scrape_laptops(response) ==
    LET t == TryBlock(response)
    IN  IF t.exc = None
        THEN [raised |-> None, value |-> t.value, errors |-> <<>>]
        ELSE IF IsException(Get(t.exc))
        THEN [raised |-> None, value |-> Some(EmptyFrame), errors |-> <<Get(t.exc)>>]
        ELSE [raised |-> t.exc, value |-> None, errors |-> <<>>]

----------------------------------------------------------------------------
(* The site's answers in the session model.                                *)

PageNone == <<>>

PageScenario == <<CardA, CardB, CardC>>

PageFree == <<CardNoPrice, CardD>>

Responses ==
    {Raise("ConnectionError"), Response(404, PageNone), Response(200, PageFree),
     Response(200, PageNone), Response(200, PageScenario)}

\* scrape_laptops on each of these answers, tabulated.
Scraped == [response \in Responses |-> scrape_laptops(response)]

----------------------------------------------------------------------------
(* @st.cache_data(ttl=3600)                                                *)

TTL == 3600

\* An entry answers calls made less than TTL seconds after it was stored.
IsFresh(entry, t) == t - entry.stored < TTL

CacheHit(c, url, t) == IsSome(c[url]) /\ IsFresh(Get(c[url]), t)

\* A miss: the function has run with result r, and what it returned is
\* stored with the reports it made; a call that raised stores nothing.
CacheMiss(c, url, r, t) ==
    [raised |-> r.raised, value |-> r.value, errors |-> r.errors, hit |-> FALSE,
     cache |-> IF IsSome(r.raised) THEN c
               ELSE [c EXCEPT ![url] =
                        Some([value |-> Get(r.value), errors |-> r.errors, stored |-> t])]]

\* A call of the decorated function at time t.  On a hit the stored value is
\* returned and the st.error reports recorded with it are replayed; the site
\* is not asked.  On a miss the function runs on the site's answer.
CachedCall(c, url, response, t) ==
    IF CacheHit(c, url, t)
    THEN [raised |-> None, value |-> Some(Get(c[url]).value),
          errors |-> Get(c[url]).errors, hit |-> TRUE, cache |-> c]
    ELSE CacheMiss(c, url, Scraped[response], t)

----------------------------------------------------------------------------
(* The aggregations of main().                                             *)

\* A faulty filter: the upper bound is exclusive (< for <=).
FilterExclusiveUpper(df, price_range, rating_filter) ==
    [columns |-> df.columns,
     rows |-> SelectSeq(df.rows, LAMBDA r :
                  /\ FLe(price_range[1], r.Price)
                  /\ FLt(r.Price, price_range[2])
                  /\ r.Rating \in rating_filter)]

\* Lines 205-209: the rows with price_range[0] <= Price <= price_range[1]
\* and Rating among rating_filter; the columns are kept.
Filter(df, price_range, rating_filter) ==
    [columns |-> df.columns,
     rows |-> SelectSeq(df.rows, LAMBDA r :
                  /\ FLe(price_range[1], r.Price)
                  /\ FLe(r.Price, price_range[2])
                  /\ r.Rating \in rating_filter)]

\* display_metrics
display_metrics(df) ==
    [count |-> Len(df.rows),
     avg_price |-> FMean(Column(df, "Price")),
     avg_rating |-> FMean([i \in 1..Len(df.rows) |-> FromInt(df.rows[i].Rating)]),
     total_reviews |-> ISum(Column(df, "Reviews"))]

\* A faulty ranking: nsmallest for nlargest, the smaller key first.
RanksBeforeAscending(ks, i, j) ==
    IF IsNaN(ks[i]) THEN IsNaN(ks[j]) /\ i < j
    ELSE \/ IsNaN(ks[j])
         \/ FLt(ks[i], ks[j])
         \/ ks[j] = ks[i] /\ i < j

\* Whether, of the keys ks, nlargest ranks position i before position j:
\* the larger key first, equal keys in their original order (keep='first'),
\* nan keys after all others.
RanksBefore(ks, i, j) ==
    IF IsNaN(ks[i]) THEN IsNaN(ks[j]) /\ i < j
    ELSE \/ IsNaN(ks[j])
         \/ FLt(ks[j], ks[i])
         \/ ks[j] = ks[i] /\ i < j

\* The positions of the n largest keys, in nlargest's order.
NLargestIdx(ks, n) ==
    LET rank(i) == 1 + Cardinality({j \in 1..Len(ks) : RanksBefore(ks, j, i)})
        m == IF n < Len(ks) THEN (IF n < 0 THEN 0 ELSE n) ELSE Len(ks)
    IN  [p \in 1..m |-> CHOOSE i \in 1..Len(ks) : rank(i) = p]

\* The keys of a numeric column, as floats.
Keys(df, column) ==
    [i \in 1..Len(df.rows) |->
        IF column = "Rating" \/ column = "Reviews"
        THEN FromInt(df.rows[i][column]) ELSE df.rows[i][column]]

\* DataFrame.nlargest(n, column)
NLargest(df, n, column) ==
    LET idx == NLargestIdx(Keys(df, column), n)
    IN  [columns |-> df.columns, rows |-> [p \in 1..Len(idx) |-> df.rows[idx[p]]]]

\* df[[c1, c2, ...]]
Project(df, columns) ==
    [columns |-> columns,
     rows |-> [i \in 1..Len(df.rows) |-> [c \in SeqToSet(columns) |-> df.rows[i][c]]]]

\* Line 316: Rating / (Price / 100)
value_score(row) == FDiv(FromInt(row.Rating), FDiv(row.Price, FromInt(100)))

\* filtered_df['Value_Score'] = ...: the frame after the assignment.
WithValueScore(df) ==
    [columns |-> Append(df.columns, "Value_Score"),
     rows |-> [i \in 1..Len(df.rows) |->
                  [c \in SeqToSet(df.columns) \cup {"Value_Score"} |->
                      IF c = "Value_Score" THEN value_score(df.rows[i]) ELSE df.rows[i][c]]]]

\* The price statistics of lines 298-307 that are rational (the median and
\* the standard deviation are formatted beside them and read the same column).
price_stats(df) ==
    [min |-> FMin(Column(df, "Price")), max |-> FMax(Column(df, "Price")),
     mean |-> FMean(Column(df, "Price"))]

\* DataFrame.to_csv(index=False): the header and one line of cells per row.
to_csv(df) ==
    [header |-> df.columns,
     lines |-> [i \in 1..Len(df.rows) |-> [j \in 1..Len(df.columns) |-> df.rows[i][df.columns[j]]]]]

\* DataFrame.to_json(orient='records'): one object per row, keyed by column.
to_json(df) == df.rows

----------------------------------------------------------------------------
(* main(): one run of the script, from the sidebar to the export tab.      *)

DefaultUrl == "laptops"

URLs == {DefaultUrl, "tablets"}

\* st.slider("Select number of top products", 5, 20, 10)
MinTopN == 5

MaxTopN == 20

DefaultTopN == 10

TopNChoices == {MinTopN, DefaultTopN}

\* filtered_df.nlargest(5, 'Price')
TopExpensiveN == 5

\* filtered_df.nlargest(10, 'Value_Score')
BestValueN == 10

\* A faulty assignment: the session is written only when the call returned
\* rows, so that a failed refresh leaves the earlier records in place.
SessionKeptOnEmpty(s, value, t) ==
    IF IsEmpty(value) THEN s ELSE [df |-> Some(value), scrape_time |-> Some(t)]

\* Lines 174-175: the session after the button's block.
SessionAfterScrape(s, value, t) == [df |-> Some(value), scrape_time |-> Some(t)]

\* Line 178: 'df' not in st.session_state or st.session_state['df'].empty
NoData(s) == s.df = None \/ IsEmpty(Get(s.df))

\* The slider's step for float bounds.
SliderStep == Num(1, 100)

\* Lines 191-196: the ranges the price slider can return, a pair lo <= hi
\* between the column's minimum and maximum.  The positions offered here are
\* the prices of the frame and one step above the minimum; a column of nan
\* alone leaves the slider at (nan, nan).  The pages of the session model
\* hold two different prices, so the slider's minimum is below its maximum.
PriceRanges(df) ==
    LET lowest == FMin(Column(df, "Price"))
        highest == FMax(Column(df, "Price"))
        stops == {p \in SeqToSet(Column(df, "Price")) \cup {FAdd(lowest, SliderStep)} :
                     FLe(lowest, p) /\ FLe(p, highest)}
    IN  IF IsNaN(lowest) THEN {<<NaN, NaN>>}
        ELSE {<<lo, hi>> : lo \in stops, hi \in stops} \cap
             {pr \in stops \X stops : FLe(pr[1], pr[2])}

\* Lines 198-202: the multiselect returns any subset of the frame's ratings.
RatingFilters(df) == SUBSET SeqToSet(Column(df, "Rating"))

\* A screen on which nothing is drawn.
Blank ==
    [view |-> "none", request |-> [button |-> FALSE, url |-> DefaultUrl],
     errors |-> <<>>, metrics |-> None, top_rated |-> None, stats |-> None,
     top_expensive |-> None, best_value |-> None, filtered_df |-> None,
     csv |-> None, json |-> None]

\* Lines 179-180: the st.info message, and nothing else.
InfoScreen == [Blank EXCEPT !.view = "info"]

\* Lines 204-347: what is drawn from the session's frame under the widgets'
\* values.  filtered_df is the frame as the export tab reads it, after line
\* 316 has added its column.
Dashboard(df, price_range, rating_filter, top_n) ==
    LET filtered_df == Filter(df, price_range, rating_filter)
        scored == WithValueScore(filtered_df)
    IN  [Blank EXCEPT
            !.view = "dashboard",
            !.metrics = Some(display_metrics(filtered_df)),
            !.top_rated = Some(NLargest(filtered_df, top_n, "Rating")),
            !.stats = Some(price_stats(filtered_df)),
            !.top_expensive =
                Some(Project(NLargest(filtered_df, TopExpensiveN, "Price"),
                             <<"Name", "Price", "Rating">>)),
            !.best_value =
                Some(Project(NLargest(scored, BestValueN, "Value_Score"),
                             <<"Name", "Price", "Rating", "Reviews">>)),
            !.filtered_df = Some(scored),
            !.csv = Some(to_csv(scored)),
            !.json = Some(to_json(scored))]

\* Lines 172-175: with the button pressed, the call of scrape_laptops(url);
\* without, no call.
ButtonBlock(button, url) ==
    IF button THEN CachedCall(cache, url, site, now)
    ELSE [raised |-> None, value |-> None, errors |-> <<>>, hit |-> FALSE, cache |-> cache]

\* Lines 177-347: the screens a run can draw from the session s, one for
\* each value the filter widgets can return.
Screens(s, top_n) ==
    IF NoData(s) THEN {InfoScreen}
    ELSE {Dashboard(Get(s.df), price_range, rating_filter, top_n) :
             price_range \in PriceRanges(Get(s.df)),
             rating_filter \in RatingFilters(Get(s.df))}

\* The run, given what the button's block did.  An exception of the call
\* leaves main() at line 174: nothing is assigned and nothing more is drawn.
RunWith(button, url, top_n, call) ==
    /\ UNCHANGED <<site, now, inp, res>>
    /\ IF IsSome(call.raised)
       THEN /\ UNCHANGED <<cache, session>>
            /\ out' = [Blank EXCEPT !.view = "exception",
                                    !.request = [button |-> button, url |-> url]]
       ELSE /\ cache' = call.cache
            /\ session' = IF button THEN SessionAfterScrape(session, Get(call.value), now)
                          ELSE session
            /\ \E screen \in Screens(session', top_n) :
                  out' = [screen EXCEPT !.request = [button |-> button, url |-> url],
                                        !.errors = call.errors]

\* One run of main() with the sidebar's button pressed or not, the URL in
\* the text input and the top-N slider's value.
main(button, url, top_n) == RunWith(button, url, top_n, ButtonBlock(button, url))

----------------------------------------------------------------------------
(* The environment: the site and the clock.                                *)

\* The clock advances in steps of TTL seconds, MaxTicks times.
MaxTicks == 1

TickSeconds == TTL

\* The site starts to answer differently.
SiteChange ==
    /\ \E r \in Responses :
          /\ r # site
          /\ site' = r
    /\ UNCHANGED <<now, cache, session, out, inp, res>>

Tick ==
    /\ now + TickSeconds <= MaxTicks * TickSeconds
    /\ now' = now + TickSeconds
    /\ UNCHANGED <<site, cache, session, out, inp, res>>

\* A new session: nothing scraped, nothing cached, nothing drawn.
SessionStart ==
    /\ site = Response(200, PageScenario)
    /\ now = 0
    /\ cache = [u \in URLs |-> None]
    /\ session = [df |-> None, scrape_time |-> None]
    /\ out = Blank

Init ==
    /\ SessionStart
    /\ inp = None
    /\ res = None

\* The user presses "Scrape Data": a run with the button's block.
Refresh == \E url \in URLs, top_n \in TopNChoices : main(TRUE, url, top_n)

\* Any other interaction (a widget changed) reruns the script; the URL in
\* the text input is read and not used.
Rerun == \E top_n \in TopNChoices : main(FALSE, DefaultUrl, top_n)

Next == Refresh \/ Rerun \/ SiteChange \/ Tick

Spec == Init /\ [][Next]_vars

----------------------------------------------------------------------------
(* scrape_laptops as a function of the site's answer: every answer of the  *)
(* bounded set below is given to one call.                                 *)

MaxCards == 3

PagesUpTo(n) == UNION {[1..k -> Cards] : k \in 0..n}

Statuses == {200, 300, 404, 500}

Answers ==
    {Raise("ConnectionError"), Raise("Timeout")} \cup
    {Response(st, p) : st \in Statuses, p \in PagesUpTo(MaxCards)}

InitScrape ==
    /\ SessionStart
    /\ inp \in Answers
    /\ res = None

CallScrape ==
    /\ res = None
    /\ res' = Some(scrape_laptops(inp))
    /\ UNCHANGED <<site, now, cache, session, out, inp>>

SpecScrape == InitScrape /\ [][CallScrape]_vars

----------------------------------------------------------------------------
(* The filter and the top-N selection as functions: every frame of at most *)
(* MaxRows rows over the prices and ratings below is given to one of them. *)

MaxRows == 3

MaxN == 4

Price199 == Num(19999, 100)

Price1299 == Num(1299, 1)

SamplePrices == {FromInt(0), Price199, Price1299}

SampleRatings == {0, 5}

\* A row whose Name is its position in the frame.
SampleRow(i, price, rating) ==
    Record(<<"#", CASE i = 1 -> "1" [] i = 2 -> "2" [] i = 3 -> "3" [] i = 4 -> "4"
                    [] OTHER -> "5">>,
           price, NA, rating, i)

SampleFrames ==
    UNION {{FrameOf([i \in 1..k |-> SampleRow(i, ps[i], rs[i])]) :
               ps \in [1..k -> SamplePrices], rs \in [1..k -> SampleRatings]} :
           k \in 0..MaxRows}

FilterInputs ==
    [op : {"filter"}, df : SampleFrames,
     price_range : (SamplePrices \cup {Num(1, 100)}) \X (SamplePrices \cup {Num(1, 100)}),
     rating_filter : SUBSET SampleRatings,
     n : {0}, column : {"Price"}]

NLargestInputs ==
    [op : {"nlargest"}, df : SampleFrames \ {EmptyFrame},
     price_range : {<<FromInt(0), FromInt(0)>>}, rating_filter : {{}},
     n : 0..MaxN, column : {"Price", "Rating", "Value_Score"}]

InitAgg ==
    /\ SessionStart
    /\ inp \in FilterInputs \cup NLargestInputs
    /\ res = None

\* filtered_df = df[...] of lines 205-209
CallFilter ==
    /\ res = None
    /\ inp.op = "filter"
    /\ ~IsEmpty(inp.df)
    /\ res' = Some(Filter(inp.df, inp.price_range, inp.rating_filter))
    /\ UNCHANGED <<site, now, cache, session, out, inp>>

\* filtered_df.nlargest(n, column) of lines 279, 312 and 317
CallNLargest ==
    /\ res = None
    /\ inp.op = "nlargest"
    /\ res' = Some(NLargest(IF inp.column = "Value_Score" THEN WithValueScore(inp.df)
                            ELSE inp.df,
                            inp.n, inp.column))
    /\ UNCHANGED <<site, now, cache, session, out, inp>>

NextAgg == CallFilter \/ CallNLargest

SpecAgg == InitAgg /\ [][NextAgg]_vars

----------------------------------------------------------------------------
(* Properties of scrape_laptops (checked under SpecScrape).                *)

\* The call under test has returned.
Called == IsSome(res)

\* The answer makes the try block fail: the GET raised, or the status is an
\* HTTP error status (4xx or 5xx).
FailedAnswer(a) == a.kind = "raise" \/ (a.status >= 400 /\ a.status <= 599)

\* The answer is not a success in the sense of the claim's text: the GET
\* raised, or the status is outside 200..299.
Non2xxAnswer(a) == a.kind = "raise" \/ a.status < 200 \/ a.status > 299

\* The cards of the model on which a statement of the loop body raises: an
\* unparsable price text, a rating attribute that is no integer, a review
\* count that starts with no numeral.
RaisingCards == {CardC, CardBadRating, CardBadReviews}

SurvivingCards(products) == SelectSeq(products, LAMBDA c : c \notin RaisingCards)

\* The records of scenario (a) and (b), written out.
RecordA ==
    [Name |-> <<"A">>, Price |-> [k |-> "num", n |-> 19999, d |-> 100],
     Description |-> <<"d", "a">>, Rating |-> 4, Reviews |-> 12]

RecordB ==
    [Name |-> <<"B">>, Price |-> [k |-> "num", n |-> 1299, d |-> 1],
     Description |-> <<"N", "/", "A">>, Rating |-> 5, Reviews |-> 3]

C2_ExactlyTheSurvivorsInOrder ==
    Called /\ ~FailedAnswer(inp) =>
        LET rows == Get(Get(res).value).rows
            kept == SurvivingCards(inp.body)
        IN  /\ Len(rows) = Len(kept)
            /\ \A i \in 1..Len(kept) : Some(rows[i]) = ExtractCard(kept[i])
            /\ \A i \in 1..Len(rows) : DOMAIN rows[i] = SeqToSet(RecordColumns)
            /\ inp.body = <<CardA, CardB, CardC>> => rows = <<RecordA, RecordB>>

\* A raising card between two good ones: both good ones are returned.
C2_Witness ==
    /\ Called
    /\ inp = Response(200, <<CardB, CardC, CardA>>)
    /\ Get(Get(res).value).rows = <<RecordB, RecordA>>

\* The documented default stands in every field whose element is missing.
DefaultsWhereMissing(card, row) ==
    /\ card.name_tag = None => row.Name = NA
    /\ card.price_tag = None => row.Price = FromInt(0)
    /\ card.desc_tag = None => row.Description = NA
    /\ card.rating_tag = None => row.Rating = 0
    /\ card.reviews_tag = None => row.Reviews = 0

\* No field of the row is null: the texts are texts, the counts are integers
\* and the price is a number (pandas reads nan as the missing value).
NoNullField(row) ==
    /\ row.Name \in Seq(STRING)
    /\ row.Description \in Seq(STRING)
    /\ row.Rating \in Int
    /\ row.Reviews \in Int
    /\ ~IsNaN(row.Price)

\* The part of C3 about defaults: every returned record of a card with
\* missing elements carries the default in each missing field, and (b) of
\* the scenario keeps its other fields.
C3_Defaults ==
    Called /\ ~FailedAnswer(inp) =>
        LET rows == Get(Get(res).value).rows
            kept == SurvivingCards(inp.body)
        IN  \A i \in 1..Len(rows) :
                /\ DefaultsWhereMissing(kept[i], rows[i])
                /\ kept[i] = CardB => rows[i] = RecordB

\* C3: extraction totality.  A card with missing elements is dropped or its
\* record carries the defaults, and no record has a null field.
C3_Totality ==
    Called /\ ~FailedAnswer(inp) =>
        LET rows == Get(Get(res).value).rows
            kept == SurvivingCards(inp.body)
        IN  \A i \in 1..Len(rows) :
                /\ DefaultsWhereMissing(kept[i], rows[i])
                /\ kept[i] = CardB => rows[i] = RecordB
                /\ NoNullField(rows[i])

----------------------------------------------------------------------------
(* Properties of the filter and of nlargest (checked under SpecAgg).       *)

\* x <= y on the rationals.
RatLe(x, y) == x.k = "num" /\ y.k = "num" /\ x.n * y.d <= y.n * x.d

\* The k-th smallest member of a set of positions.
KthOf(S, k) == CHOOSE i \in S : Cardinality({j \in S : j < i}) = k - 1

\* C8: the filtered frame holds exactly the rows with
\* price_min <= Price <= price_max (both bounds inclusive) and Rating in the
\* selected set, in their original relative order; filtering it again with
\* the same bounds and set changes nothing.
C8_FilterKeepsExactlyTheRange ==
    Called /\ inp.op = "filter" =>
        LET R == inp.df.rows
            kept == {i \in 1..Len(R) :
                        /\ RatLe(inp.price_range[1], R[i].Price)
                        /\ RatLe(R[i].Price, inp.price_range[2])
                        /\ R[i].Rating \in inp.rating_filter}
            rows == Get(res).rows
        IN  /\ Len(rows) = Cardinality(kept)
            /\ \A k \in 1..Len(rows) : rows[k] = R[KthOf(kept, k)]
            /\ Get(res).columns = inp.df.columns
            /\ Filter(Get(res), inp.price_range, inp.rating_filter) = Get(res)

\* Bounds 199.99 and 1299 over prices 0, 199.99, 1299: the two rows on the
\* bounds are kept, the row below is dropped.
C8_Witness ==
    /\ Called
    /\ inp.op = "filter"
    /\ inp.price_range = <<Price199, Price1299>>
    /\ inp.rating_filter = {5}
    /\ Len(inp.df.rows) = 3
    /\ \A i \in 1..3 : inp.df.rows[i].Rating = 5
    /\ inp.df.rows[1].Price = FromInt(0)
    /\ inp.df.rows[2].Price = Price199
    /\ inp.df.rows[3].Price = Price1299
    /\ Get(res).rows = <<inp.df.rows[2], inp.df.rows[3]>>

\* The value nlargest ranks a row by.
RankedValue(row, column) ==
    IF column = "Rating" THEN FromInt(row.Rating) ELSE row[column]

----------------------------------------------------------------------------
(* Properties of the session (checked under Spec).                         *)

\* The step is a run of main(): the environment's steps change the site or
\* the clock, a run changes neither.
MainStep == site' = site /\ now' = now

\* The step is a run of main() with the button pressed, for the URL.
RefreshStep(url) == MainStep /\ out'.request = [button |-> TRUE, url |-> url]

\* The site answers with a page: the GET returns and the status is 200.
SiteResponds == site.kind = "response" /\ site.status = 200

\* The records a complete extraction of a page yields.
CompleteExtraction(body) ==
    LET kept == SurvivingCards(body)
    IN  FrameOf([i \in 1..Len(kept) |-> Get(ExtractCard(kept[i]))])

\* The screen shows a refresh that reported a failure.
FailedRefreshShown == out.request.button /\ out.errors # <<>>

\* C4: when the screen shows a refresh that failed and the site responds
\* again, a refresh of the same URL fetches the page: the decorated call
\* returns the records extracted from the page the site now serves.
C4_RetryFetchesAgain ==
    FailedRefreshShown /\ SiteResponds =>
        LET retry == CachedCall(cache, out.request.url, site, now)
        IN  ~retry.hit /\ retry.value = Some(CompleteExtraction(site.body))

\* The retry that does fetch: the failure's entry has expired.
C4_Witness ==
    /\ FailedRefreshShown
    /\ SiteResponds
    /\ session.df = Some(EmptyFrame)
    /\ ~CacheHit(cache, out.request.url, now)

\* C5: when the records to display are none (nothing extracted, or all of
\* them filtered out) the run shows the no-data state and draws no metrics,
\* tables or exports.
C5_NoDataStateWhenEmpty ==
    out.view = "dashboard" => Get(out.metrics).count > 0

\* C6: every row that enters the best-value ranking has a finite value score.
C6_ValueScoreFinite ==
    out.view = "dashboard" =>
        \A i \in 1..Len(Get(out.filtered_df).rows) :
            IsFinite(Get(out.filtered_df).rows[i].Value_Score)

\* C7: the exported CSV has the five record fields as its header and every
\* exported JSON object has exactly those five keys.
C7_ExportHasFiveFields ==
    out.view = "dashboard" =>
        /\ Get(out.csv).header = RecordColumns
        /\ \A i \in 1..Len(Get(out.json)) : DOMAIN Get(out.json)[i] = SeqToSet(RecordColumns)

\* The frames a refresh can put in the session: the empty frame, or the
\* complete extraction of a page the site serves.
Snapshots ==
    {EmptyFrame} \cup {CompleteExtraction(r.body) : r \in {a \in Responses : a.kind = "response"}}

====
